---- MODULE Spec2Model ----
(***************************************************************************)
(* Model of scripts/run_benchmarks.py: the command builder / runner        *)
(* (build_command, command_available, run_tool), the artifact summarizer   *)
(* (summarize_artifacts with its nested collect_numeric,                   *)
(* print_summary_table) and the dispatcher main.                           *)
(*                                                                         *)
(* Strings whose characters matter (mapping keys, metric names) are        *)
(* sequences of one-character strings; strings that are only compared as   *)
(* a whole (tool names, flags, paths) are TLA+ strings.  An optional       *)
(* value (Python None) is a sequence of length 0 or 1.                     *)
(***************************************************************************)
EXTENDS Integers, Sequences, FiniteSets, TLC

(***************************************************************************)
(* Bounds of the model.                                                    *)
(***************************************************************************)
\* largest number of directory entries below the summarized directory
MaxFiles == 2

(***************************************************************************)
(* Floating point values.  A float is finite (the rational n/d, d > 0),    *)
(* an infinity (n = 1 or n = -1) or NaN.  Finite magnitudes of the model   *)
(* stay far below the range of a double.                                   *)
(***************************************************************************)
Fin(n) == [k |-> "fin", n |-> n, d |-> 1]
NaN == [k |-> "nan", n |-> 0, d |-> 1]
PosInf == [k |-> "inf", n |-> 1, d |-> 1]
NegInf == [k |-> "inf", n |-> -1, d |-> 1]

\* a < b on floats (every comparison with NaN is false)
FloatLt(a, b) ==
  /\ a.k # "nan"
  /\ b.k # "nan"
  /\ IF a.k = "inf" THEN a.n = -1 /\ ~(b.k = "inf" /\ b.n = -1)
     ELSE IF b.k = "inf" THEN b.n = 1
     ELSE a.n * b.d < b.n * a.d

Abs(i) == IF i < 0 THEN -i ELSE i

RECURSIVE Gcd(_, _)
Gcd(a, b) == IF b = 0 THEN a ELSE Gcd(b, a % b)

\* the float num/den, den > 0, in lowest terms
Ratio(num, den) ==
  LET g == Gcd(Abs(num), den)
  IN [k |-> "fin", n |-> num \div g, d |-> den \div g]

(***************************************************************************)
(* Characters and character strings.                                       *)
(***************************************************************************)
\* the code point of a character
CharCode(c) ==
  CASE c = "." -> 46
    [] c = "0" -> 48
    [] c = "1" -> 49
    [] c = "2" -> 50
    [] c = "3" -> 51
    [] c = "4" -> 52
    [] c = "5" -> 53
    [] c = "6" -> 54
    [] c = "7" -> 55
    [] c = "8" -> 56
    [] c = "9" -> 57
    [] c = "a" -> 97
    [] c = "b" -> 98
    [] c = "c" -> 99
    [] c = "f" -> 102
    [] c = "n" -> 110
    [] c = "x" -> 120
    [] c = "z" -> 122

\* str(d) for one decimal digit d
DigitChar(d) ==
  CASE d = 0 -> "0"
    [] d = 1 -> "1"
    [] d = 2 -> "2"
    [] d = 3 -> "3"
    [] d = 4 -> "4"
    [] d = 5 -> "5"
    [] d = 6 -> "6"
    [] d = 7 -> "7"
    [] d = 8 -> "8"
    [] d = 9 -> "9"

\* str(i) of a non-negative integer: its decimal digits
RECURSIVE DecStr(_)
DecStr(i) ==
  IF i < 10 THEN <<DigitChar(i)>>
  ELSE Append(DecStr(i \div 10), DigitChar(i % 10))

\* s.rstrip("."): s without all of its trailing "." characters
RECURSIVE rstrip(_)
rstrip(s) ==
  IF s # <<>> /\ s[Len(s)] = "." THEN rstrip(SubSeq(s, 1, Len(s) - 1))
  ELSE s

\* s < t in the order of Python strings (code point by code point)
RECURSIVE StrLt(_, _)
StrLt(s, t) ==
  IF t = <<>> THEN FALSE
  ELSE IF s = <<>> THEN TRUE
  ELSE IF CharCode(s[1]) # CharCode(t[1]) THEN CharCode(s[1]) < CharCode(t[1])
  ELSE StrLt(Tail(s), Tail(t))

(***************************************************************************)
(* Parsed documents: the values json.loads / yaml.safe_load return.  A     *)
(* mapping is the sequence of its <<key, value>> items in iteration order  *)
(* (keys unique), a list is the sequence of its elements.                  *)
(***************************************************************************)
IntV(n) == [t |-> "int", v |-> n]
FloatV(f) == [t |-> "float", v |-> f]
BoolV(b) == [t |-> "bool", v |-> b]
StrV == [t |-> "str", v |-> 0]
NullV == [t |-> "null", v |-> 0]
MapV(items) == [t |-> "map", v |-> items]
ListV(items) == [t |-> "list", v |-> items]

\* float(payload) of an int or a float
ToFloat(payload) == IF payload.t = "int" THEN Fin(payload.v) ELSE payload.v

\* one step of a structural path: a mapping key or a list index
KeyStep(key) == [kind |-> "key", s |-> key]
IdxStep(idx) == [kind |-> "idx", s |-> DecStr(idx)]

\* the concatenation of a sequence of sequences
RECURSIVE FlattenSeq(_)
FlattenSeq(ss) == IF ss = <<>> THEN <<>> ELSE ss[1] \o FlattenSeq(Tail(ss))

(***************************************************************************)
(* collect_numeric(payload, prefix): the samples the walk appends, in the  *)
(* order it appends them.  A sample is the series name and the value;      *)
(* steps records the keys and indices actually walked (it is not used by   *)
(* the code, only by the properties about paths).                          *)
(***************************************************************************)
RECURSIVE collect_numeric(_, _, _)
collect_numeric(payload, prefix, steps) ==
  IF payload.t = "map" THEN
    FlattenSeq([i \in 1..Len(payload.v) |->
      collect_numeric(payload.v[i][2], prefix \o payload.v[i][1] \o <<".">>,
                      Append(steps, KeyStep(payload.v[i][1])))])
  ELSE IF payload.t = "list" THEN
    FlattenSeq([i \in 1..Len(payload.v) |->
      collect_numeric(payload.v[i], prefix \o DecStr(i - 1) \o <<".">>,
                      Append(steps, IdxStep(i - 1)))])
  ELSE IF payload.t \in {"int", "float"} THEN
    <<[name |-> rstrip(prefix), value |-> ToFloat(payload), steps |-> steps]>>
  ELSE <<>>

(***************************************************************************)
(* The documents the artifact files of the model are made of.              *)
(***************************************************************************)
Doc(id) ==
  CASE id = 1 -> MapV(<< <<<<"a">>, MapV(<< <<<<"b">>, IntV(1)>>,
                                          <<<<"c">>, FloatV(Fin(2))>> >>)>> >>)
    [] id = 2 -> MapV(<< <<<<"x">>, IntV(1)>> >>)
    [] id = 3 -> MapV(<< <<<<"x">>, IntV(3)>> >>)
    [] id = 4 -> MapV(<< <<<<"f">>, BoolV(TRUE)>>, <<<<"n">>, StrV>>,
                        <<<<"z">>, NullV>> >>)
    [] id = 5 -> MapV(<< <<<<"x">>, FloatV(NaN)>> >>)
    [] id = 6 -> MapV(<< <<<<"x">>, FloatV(PosInf)>> >>)
    [] id = 7 -> MapV(<< <<<<"x">>, FloatV(NegInf)>> >>)
    [] id = 8 -> MapV(<< <<<<"a", ".">>, IntV(4)>>,
                        <<<<"a">>, MapV(<< <<<<>>, IntV(2)>> >>)>> >>)
    [] id = 9 -> MapV(<< <<<<"a", ".", "b">>, IntV(3)>>, <<<<"0">>, IntV(5)>> >>)
    [] id = 10 -> ListV(<< IntV(5), MapV(<< <<<<"a">>,
                                             MapV(<< <<<<"b">>, IntV(6)>> >>)>> >>),
                           BoolV(FALSE) >>)
    [] id = 11 -> IntV(7)
    [] id = 12 -> MapV(<< <<<<>>, MapV(<< <<<<>>, IntV(8)>> >>)>> >>)

DocIds == 1..12

(***************************************************************************)
(* File contents.  A text is the sequence of its lines; a line is blank,   *)
(* the serialisation of one document, or not parseable.                    *)
(***************************************************************************)
BlankLine == [kind |-> "blank", doc |-> 0]
BadLine == [kind |-> "bad", doc |-> 0]
DocLine(id) == [kind |-> "doc", doc |-> id]

\* the lines of a text that are not blank (whitespace)
NonBlank(lines) == SelectSeq(lines, LAMBDA l : l.kind # "blank")

\* json.loads(text): one document surrounded by whitespace, else an error
json_loads(lines) ==
  LET nb == NonBlank(lines)
  IN IF Len(nb) = 1 /\ nb[1].kind = "doc"
     THEN [raised |-> FALSE, docs |-> <<nb[1].doc>>]
     ELSE [raised |-> TRUE, docs |-> <<>>]

\* yaml.safe_load(text): as json.loads, but an empty text is the document None
yaml_safe_load(lines) ==
  IF NonBlank(lines) = <<>> THEN [raised |-> FALSE, docs |-> <<>>]
  ELSE json_loads(lines)

\* the samples of the documents ids, document after document
DocSamples(ids) ==
  FlattenSeq([i \in 1..Len(ids) |-> collect_numeric(Doc(ids[i]), <<>>, <<>>)])

\* the .jsonl branch from line i on: every non-blank line is parsed and
\* collected until one raises
RECURSIVE jsonl_from(_, _)
jsonl_from(lines, i) ==
  IF i > Len(lines) THEN [raised |-> FALSE, docs |-> <<>>]
  ELSE IF lines[i].kind = "blank" THEN jsonl_from(lines, i + 1)
  ELSE LET r == json_loads(<<lines[i]>>)
       IN IF r.raised THEN r
          ELSE LET rest == jsonl_from(lines, i + 1)
               IN [raised |-> rest.raised, docs |-> r.docs \o rest.docs]

(***************************************************************************)
(* One iteration of the loop over directory.rglob("*"): what visiting one  *)
(* entry does.  read: read_text was called; raised: the except branch ran  *)
(* (one diagnostic on stderr); docs: the documents passed to               *)
(* collect_numeric before the entry was left.                              *)
(***************************************************************************)
scan_entry(entry, yaml_available) ==
  IF entry.is_dir THEN [read |-> FALSE, raised |-> FALSE, docs |-> <<>>]
  ELSE IF entry.suffix = ".json" THEN
    LET r == json_loads(entry.text)
    IN [read |-> TRUE, raised |-> r.raised, docs |-> r.docs]
  ELSE IF entry.suffix = ".jsonl" THEN
    LET r == jsonl_from(entry.text, 1)
    IN [read |-> TRUE, raised |-> r.raised, docs |-> r.docs]
  ELSE IF entry.suffix \in {".yml", ".yaml"} /\ yaml_available THEN
    LET r == yaml_safe_load(entry.text)
    IN [read |-> TRUE, raised |-> r.raised, docs |-> r.docs]
  ELSE [read |-> FALSE, raised |-> FALSE, docs |-> <<>>]

(***************************************************************************)
(* metrics: defaultdict(list), a function from the names that have been    *)
(* touched to their samples.                                               *)
(***************************************************************************)
EmptyMetrics == << >>

\* metrics[name].append(value)
AppendSample(m, name, value) ==
  [n \in (DOMAIN m) \cup {name} |->
     IF n = name
     THEN Append(IF n \in DOMAIN m THEN m[n] ELSE <<>>, value)
     ELSE m[n]]

RECURSIVE AppendSamples(_, _)
AppendSamples(m, samples) ==
  IF samples = <<>> THEN m
  ELSE AppendSamples(AppendSample(m, samples[1].name, samples[1].value),
                     Tail(samples))

(***************************************************************************)
(* Statistics of one series.                                               *)
(***************************************************************************)
\* min(values): the first value that no later value is smaller than
RECURSIVE MinFrom(_, _, _)
MinFrom(values, i, cur) ==
  IF i > Len(values) THEN cur
  ELSE MinFrom(values, i + 1, IF FloatLt(values[i], cur) THEN values[i] ELSE cur)

PyMin(values) == MinFrom(values, 2, values[1])

\* max(values)
RECURSIVE MaxFrom(_, _, _)
MaxFrom(values, i, cur) ==
  IF i > Len(values) THEN cur
  ELSE MaxFrom(values, i + 1, IF FloatLt(cur, values[i]) THEN values[i] ELSE cur)

PyMax(values) == MaxFrom(values, 2, values[1])

RECURSIVE FinSum(_)
FinSum(values) ==
  IF values = <<>> THEN 0
  ELSE (IF values[1].k = "fin" THEN values[1].n ELSE 0) + FinSum(Tail(values))

HasValue(values, f) == \E i \in 1..Len(values) : values[i] = f

\* statistics.fmean(values) = math.fsum(values) / len(values); fsum raises
\* ValueError when the values hold both infinities
fmean_raises(values) == HasValue(values, PosInf) /\ HasValue(values, NegInf)

fmean(values) ==
  IF HasValue(values, NaN) THEN NaN
  ELSE IF HasValue(values, PosInf) THEN PosInf
  ELSE IF HasValue(values, NegInf) THEN NegInf
  ELSE Ratio(FinSum(values), Len(values))

\* the summary dictionary built from metrics; raised: fmean raised for some
\* series, and the exception leaves summarize_artifacts
summarize_metrics(m) ==
  LET names == {n \in DOMAIN m : m[n] # <<>>}
  IN IF \E n \in names : fmean_raises(m[n])
     THEN [raised |-> TRUE, summary |-> << >>]
     ELSE [raised |-> FALSE,
           summary |-> [n \in names |->
              [count |-> Fin(Len(m[n])), mean |-> fmean(m[n]),
               min |-> PyMin(m[n]), max |-> PyMax(m[n])]]]

\* sorted(names): the names in increasing string order
RECURSIVE SortedNames(_)
SortedNames(names) ==
  IF names = {} THEN <<>>
  ELSE LET least == CHOOSE n \in names : \A o \in names \ {n} : StrLt(n, o)
       IN <<least>> \o SortedNames(names \ {least})

\* print_summary_table: the lines written to stdout
print_summary_table(summary) ==
  IF DOMAIN summary = {} THEN <<[kind |-> "no_metrics", metric |-> <<>>, count |-> 0]>>
  ELSE LET order == SortedNames(DOMAIN summary)
       IN <<[kind |-> "header", metric |-> <<>>, count |-> 0],
            [kind |-> "rule", metric |-> <<>>, count |-> 0]>>
          \o [i \in 1..Len(order) |->
                [kind |-> "row", metric |-> order[i],
                 count |-> summary[order[i]].count.n]]

(***************************************************************************)
(* Command builder / runner.                                               *)
(***************************************************************************)
\* the tool profiles; an absent flag (None) is the empty sequence
TOOL_COMMANDS ==
  [t \in {"openai-evals", "helm", "lm-eval"} |->
     CASE t = "openai-evals" ->
            [executable |-> <<"oaieval", "run">>, config_flag |-> <<>>,
             model_flag |-> <<"--model">>]
       [] t = "helm" ->
            [executable |-> <<"helm-run">>, config_flag |-> <<"--config">>,
             model_flag |-> <<"--model">>]
       [] t = "lm-eval" ->
            [executable |-> <<"lm_eval">>, config_flag |-> <<"--config">>,
             model_flag |-> <<"--model">>]]

\* truth value of an optional string: neither None nor ""
Truthy(opt) == opt # <<>> /\ opt[1] # ""

\* build_command with the model flag appended after the extra arguments
build_command_after_extra(tool, config, model, extra) ==
  IF tool \notin DOMAIN TOOL_COMMANDS THEN [raised |-> TRUE, command |-> <<>>]
  ELSE
    LET meta == TOOL_COMMANDS[tool]
        c1 == meta.executable
        c2 == IF Truthy(meta.config_flag)
              THEN c1 \o <<meta.config_flag[1], config>>
              ELSE Append(c1, config)
        c3 == c2 \o extra
    IN [raised |-> FALSE,
        command |-> IF Truthy(model) /\ Truthy(meta.model_flag)
                    THEN c3 \o <<meta.model_flag[1], model[1]>>
                    ELSE c3]

\* build_command; raised: the ValueError of an unsupported tool
build_command(tool, config, model, extra) ==
  IF tool \notin DOMAIN TOOL_COMMANDS THEN [raised |-> TRUE, command |-> <<>>]
  ELSE
    LET meta == TOOL_COMMANDS[tool]
        c1 == meta.executable
        c2 == IF Truthy(meta.config_flag)
              THEN c1 \o <<meta.config_flag[1], config>>
              ELSE Append(c1, config)
        c3 == IF Truthy(model) /\ Truthy(meta.model_flag)
              THEN c2 \o <<meta.model_flag[1], model[1]>>
              ELSE c2
    IN [raised |-> FALSE, command |-> c3 \o extra]

\* command_available looking up the last element of the command
command_available_last(command, search_path) ==
  IF command = <<>> THEN FALSE ELSE command[Len(command)] \in search_path

\* command_available: shutil.which finds command[0] on the search path
command_available(command, search_path) ==
  IF command = <<>> THEN FALSE ELSE command[1] \in search_path

\* run_tool testing the executable before the dry-run flag
run_tool_check_first(tool, config, model, dry_run, extra, search_path, child) ==
  LET b == build_command(tool, config, model, extra)
  IN IF b.raised
     THEN [raised |-> TRUE, command |-> <<>>, spawned |-> 0, result |-> 1]
     ELSE IF ~command_available(b.command, search_path)
     THEN [raised |-> FALSE, command |-> b.command, spawned |-> 0, result |-> 127]
     ELSE IF dry_run
     THEN [raised |-> FALSE, command |-> b.command, spawned |-> 0, result |-> 0]
     ELSE [raised |-> FALSE, command |-> b.command, spawned |-> 1, result |-> child]

\* run_tool, the child exiting with child when it is spawned.  raised: an
\* exception leaves run_tool; spawned: number of subprocess.run calls;
\* result: the value returned
run_tool(tool, config, model, dry_run, extra, search_path, child) ==
  LET b == build_command(tool, config, model, extra)
  IN IF b.raised
     THEN [raised |-> TRUE, command |-> <<>>, spawned |-> 0, result |-> 1]
     ELSE IF dry_run
     THEN [raised |-> FALSE, command |-> b.command, spawned |-> 0, result |-> 0]
     ELSE IF ~command_available(b.command, search_path)
     THEN [raised |-> FALSE, command |-> b.command, spawned |-> 0, result |-> 127]
     ELSE [raised |-> FALSE, command |-> b.command, spawned |-> 1, result |-> child]

(***************************************************************************)
(* Inputs of the model: command lines, environments and directory trees.   *)
(***************************************************************************)
Tools == (DOMAIN TOOL_COMMANDS) \cup {"bogus"}
Configs == {"cfg.yaml", "--model"}
Models == {<<>>, <<"">>, <<"gpt-4">>}
Extras == {<<>>, <<"--limit", "5">>, <<"--model", "other">>}
Executables == {"oaieval", "helm-run", "lm_eval"}
\* exit statuses of a child process (negative: killed by a signal)
ExitCodes == {-9, 0, 1, 127}

Entry(is_dir, suffix, text) == [is_dir |-> is_dir, suffix |-> suffix, text |-> text]

\* the entries a scanned tree is made of
Entries ==
  { Entry(FALSE, ".json", <<DocLine(1)>>),
    Entry(FALSE, ".json", <<BadLine>>),
    Entry(FALSE, ".json", <<DocLine(4)>>),
    Entry(FALSE, ".json", <<DocLine(6)>>),
    Entry(FALSE, ".json", <<DocLine(7)>>),
    Entry(FALSE, ".json", <<DocLine(8)>>),
    Entry(FALSE, ".json", <<DocLine(9)>>),
    Entry(FALSE, ".json", <<DocLine(10)>>),
    Entry(FALSE, ".json", <<DocLine(11), BlankLine>>),
    Entry(FALSE, ".json", <<DocLine(12)>>),
    Entry(FALSE, ".jsonl", <<DocLine(2), DocLine(3)>>),
    Entry(FALSE, ".jsonl", <<DocLine(2), BadLine>>),
    Entry(FALSE, ".jsonl", <<BlankLine, DocLine(5)>>),
    Entry(FALSE, ".yaml", <<DocLine(3)>>),
    Entry(FALSE, ".yml", <<BadLine>>),
    Entry(FALSE, ".txt", <<DocLine(2)>>),
    Entry(TRUE, ".json", <<>>) }

\* the trees: up to MaxFiles entries, numbered as paths
Trees == UNION {[1..n -> Entries] : n \in 0..MaxFiles}

(***************************************************************************)
(* State of one execution of main.                                         *)
(***************************************************************************)
VARIABLES
  pc,               \* position in main
  args,             \* the parsed command line
  env,              \* search path, file system facts, yaml decoder
  dir,              \* the entries below args.directory
  pending,          \* entries rglob has not produced yet
  visited,          \* entries in the order they were visited
  metrics,          \* the defaultdict of summarize_artifacts
  origins,          \* for every sample appended: its series and its path
  scanned,          \* documents passed to collect_numeric, in order
  files_read,       \* entries read_text was called on
  diagnostics,      \* entries reported on stderr as skipped
  summary,          \* optional result of summarize_artifacts
  stdout,           \* lines printed by print_summary_table
  run_dir_created,  \* ensure_output_directory has run
  command,          \* optional command built by build_command
  spawned,          \* number of child processes spawned
  child_code,       \* optional exit status of the child
  exit_code         \* optional exit status of the process

vars == <<pc, args, env, dir, pending, visited, metrics, origins, scanned,
          files_read, diagnostics, summary, stdout, run_dir_created, command,
          spawned, child_code, exit_code>>

summarize_vars == <<pending, visited, metrics, origins, scanned, files_read,
                    diagnostics, summary, stdout>>
run_vars == <<run_dir_created, command, spawned, child_code>>

DefaultArgs ==
  [command |-> "none", tool |-> "helm", config |-> "cfg.yaml", model |-> <<>>,
   dry_run |-> FALSE, extra |-> <<>>]
DefaultEnv ==
  [search_path |-> {}, config_exists |-> TRUE, directory_exists |-> TRUE,
   yaml_available |-> FALSE]

InitRun ==
  /\ \E tool \in Tools, config \in Configs, model \in Models,
        dry_run \in BOOLEAN, extra \in Extras :
       args = [command |-> "run", tool |-> tool, config |-> config,
               model |-> model, dry_run |-> dry_run, extra |-> extra]
  /\ \E sp \in SUBSET Executables, ce \in BOOLEAN :
       env = [DefaultEnv EXCEPT !.search_path = sp, !.config_exists = ce]
  /\ dir = <<>>

InitSummarize ==
  /\ args = [DefaultArgs EXCEPT !.command = "summarize"]
  /\ \E de \in BOOLEAN, ya \in BOOLEAN :
       /\ env = [DefaultEnv EXCEPT !.directory_exists = de, !.yaml_available = ya]
       /\ dir \in (IF de THEN Trees ELSE {<<>>})

InitNone ==
  /\ args = DefaultArgs
  /\ env = DefaultEnv
  /\ dir = <<>>

Init ==
  /\ pc = "parse_args"
  /\ (InitRun \/ InitSummarize \/ InitNone)
  /\ pending = {}
  /\ visited = <<>>
  /\ metrics = EmptyMetrics
  /\ origins = {}
  /\ scanned = <<>>
  /\ files_read = {}
  /\ diagnostics = {}
  /\ summary = <<>>
  /\ stdout = <<>>
  /\ run_dir_created = FALSE
  /\ command = <<>>
  /\ spawned = 0
  /\ child_code = <<>>
  /\ exit_code = <<>>

\* the process ends with status code
Exit(code) ==
  /\ pc' = "done"
  /\ exit_code' = <<code>>

(***************************************************************************)
(* main                                                                    *)
(***************************************************************************)
\* parse_args without the restriction of --tool to the known tools
ParseArgsAnyTool ==
  /\ pc = "parse_args"
  /\ pc' = "dispatch"
  /\ UNCHANGED <<args, env, dir, summarize_vars, run_vars, exit_code>>

\* parser.parse_args: --tool is restricted to choices=sorted(TOOL_COMMANDS)
ParseArgs ==
  /\ pc = "parse_args"
  /\ IF args.command = "run" /\ args.tool \notin DOMAIN TOOL_COMMANDS
     THEN Exit(2)
     ELSE pc' = "dispatch" /\ UNCHANGED exit_code
  /\ UNCHANGED <<args, env, dir, summarize_vars, run_vars>>

\* run: the configuration file has to exist
ValidateConfig ==
  /\ pc = "dispatch"
  /\ args.command = "run"
  /\ IF ~env.config_exists
     THEN Exit(2)
     ELSE pc' = "ensure_output_directory" /\ UNCHANGED exit_code
  /\ UNCHANGED <<args, env, dir, summarize_vars, run_vars>>

\* ensure_output_directory: mkdir(parents=True, exist_ok=True)
ensure_output_directory ==
  /\ pc = "ensure_output_directory"
  /\ run_dir_created' = TRUE
  /\ pc' = "run_tool"
  /\ UNCHANGED <<args, env, dir, summarize_vars, command, spawned, child_code,
                 exit_code>>

\* return run_tool(...): main's status is run_tool's result
RunTool ==
  /\ pc = "run_tool"
  /\ \E child \in ExitCodes :
       LET r == run_tool(args.tool, args.config, args.model, args.dry_run,
                         args.extra, env.search_path, child)
       IN /\ command' = IF r.raised THEN <<>> ELSE <<r.command>>
          /\ spawned' = spawned + r.spawned
          /\ child_code' = IF r.spawned = 1 THEN <<child>> ELSE <<>>
          /\ Exit(r.result)
  /\ UNCHANGED <<args, env, dir, summarize_vars, run_dir_created>>

\* summarize: the artifact directory has to exist
ValidateDirectory ==
  /\ pc = "dispatch"
  /\ args.command = "summarize"
  /\ IF ~env.directory_exists
     THEN Exit(2) /\ UNCHANGED pending
     ELSE pc' = "scan" /\ pending' = DOMAIN dir /\ UNCHANGED exit_code
  /\ UNCHANGED <<args, env, dir, visited, metrics, origins, scanned,
                 files_read, diagnostics, summary, stdout, run_vars>>

\* summarize_artifacts: one iteration of the loop, on the entry rglob
\* produces next (in no particular order)
ScanEntry ==
  /\ pc = "scan"
  /\ \E p \in pending :
       LET r == scan_entry(dir[p], env.yaml_available)
           samples == DocSamples(r.docs)
       IN /\ pending' = pending \ {p}
          /\ visited' = Append(visited, p)
          /\ metrics' = AppendSamples(metrics, samples)
          /\ origins' = origins \cup
               {[name |-> samples[i].name, steps |-> samples[i].steps] :
                  i \in 1..Len(samples)}
          /\ scanned' = scanned \o r.docs
          /\ files_read' = IF r.read THEN files_read \cup {p} ELSE files_read
          /\ diagnostics' = IF r.raised THEN diagnostics \cup {p} ELSE diagnostics
  /\ UNCHANGED <<pc, args, env, dir, summary, stdout, run_vars, exit_code>>

\* summarize_artifacts after the loop, print_summary_table, return 0; an
\* exception of fmean is not caught and ends the process with status 1
FinishSummarize ==
  /\ pc = "scan"
  /\ pending = {}
  /\ LET r == summarize_metrics(metrics)
     IN IF r.raised
        THEN Exit(1) /\ UNCHANGED <<summary, stdout>>
        ELSE /\ summary' = <<r.summary>>
             /\ stdout' = print_summary_table(r.summary)
             /\ Exit(0)
  /\ UNCHANGED <<args, env, dir, pending, visited, metrics, origins, scanned,
                 files_read, diagnostics, run_vars>>

\* no sub-command: parser.error("Unknown command ...")
UnknownCommand ==
  /\ pc = "dispatch"
  /\ args.command \notin {"run", "summarize"}
  /\ Exit(2)
  /\ UNCHANGED <<args, env, dir, summarize_vars, run_vars>>

Next ==
  \/ ParseArgs
  \/ ValidateConfig
  \/ ensure_output_directory
  \/ RunTool
  \/ ValidateDirectory
  \/ ScanEntry
  \/ FinishSummarize
  \/ UnknownCommand

Spec == Init /\ [][Next]_vars

TypeOK ==
  /\ pc \in {"parse_args", "dispatch", "ensure_output_directory", "run_tool",
             "scan", "done"}
  /\ spawned \in 0..1
  /\ Len(exit_code) <= 1

(***************************************************************************)
(* Definitions used to state the properties.                               *)
(***************************************************************************)
Done == pc = "done"
RunCommand == args.command = "run"
SummarizeCommand == args.command = "summarize"
\* summarize_artifacts has returned its summary
Returned == Done /\ SummarizeCommand /\ summary # <<>>

\* the metrics after visiting the entries of order, one after the other
RECURSIVE MetricsInOrder(_, _)
MetricsInOrder(order, m) ==
  IF order = <<>> THEN m
  ELSE MetricsInOrder(Tail(order),
         AppendSamples(m, DocSamples(scan_entry(dir[order[1]],
                                                env.yaml_available).docs)))

\* what summarize_artifacts does when rglob produces the entries in order
SummaryInOrder(order) == summarize_metrics(MetricsInOrder(order, EmptyMetrics))

\* every order in which the entries of the tree can be enumerated
Orders ==
  {o \in [DOMAIN dir -> DOMAIN dir] : \A i, j \in DOMAIN dir : o[i] = o[j] => i = j}

\* every leaf of a document with the keys and indices leading to it
RECURSIVE Leaves(_, _)
Leaves(payload, steps) ==
  IF payload.t = "map" THEN
    FlattenSeq([i \in 1..Len(payload.v) |->
      Leaves(payload.v[i][2], Append(steps, KeyStep(payload.v[i][1])))])
  ELSE IF payload.t = "list" THEN
    FlattenSeq([i \in 1..Len(payload.v) |->
      Leaves(payload.v[i], Append(steps, IdxStep(i - 1)))])
  ELSE <<[leaf |-> payload, steps |-> steps]>>

\* the integer and floating-point leaves of the documents scanned so far
NumericLeaves ==
  SelectSeq(FlattenSeq([i \in 1..Len(scanned) |-> Leaves(Doc(scanned[i]), <<>>)]),
            LAMBDA l : l.leaf.t \in {"int", "float"})

\* the keys and indices of a path joined by "."
RECURSIVE JoinDots(_)
JoinDots(steps) ==
  IF steps = <<>> THEN <<>>
  ELSE IF Len(steps) = 1 THEN steps[1].s
  ELSE steps[1].s \o <<".">> \o JoinDots(Tail(steps))

\* the dotted path the walk forms for a leaf, as in collect_numeric
RECURSIVE PrefixOf(_)
PrefixOf(steps) ==
  IF steps = <<>> THEN <<>> ELSE steps[1].s \o <<".">> \o PrefixOf(Tail(steps))

SeriesOf(steps) == rstrip(PrefixOf(steps))

\* a <= b on floats
FloatLe(a, b) == a = b \/ FloatLt(a, b)

\* the executable of the tool of this run is on the search path
Resolvable == TOOL_COMMANDS[args.tool].executable[1] \in env.search_path

\* the run sub-command got as far as run_tool and returned
RunReturned ==
  /\ Done
  /\ RunCommand
  /\ args.tool \in DOMAIN TOOL_COMMANDS
  /\ env.config_exists

\* the command line up to and including the config argument, per profile
ConfigPart ==
  CASE args.tool = "openai-evals" -> <<"oaieval", "run", args.config>>
    [] args.tool = "helm" -> <<"helm-run", "--config", args.config>>
    [] args.tool = "lm-eval" -> <<"lm_eval", "--config", args.config>>

\* the series names of the rows printed, in the order printed
RowNames ==
  LET rows == SelectSeq(stdout, LAMBDA l : l.kind = "row")
  IN [i \in 1..Len(rows) |-> rows[i].metric]

(***************************************************************************)
(* C1: the summary returned is exactly the summary of the entries that     *)
(* parsed without error (visited in the same relative order): an entry     *)
(* whose parsing raised changes no statistic.                              *)
(***************************************************************************)
C1_FailedFilesChangeNothing ==
  Returned =>
    summary[1] =
      SummaryInOrder(SelectSeq(visited, LAMBDA p : p \notin diagnostics)).summary

(***************************************************************************)
(* C2: the summary returned is the one every other enumeration order of    *)
(* the same entries returns.                                               *)
(***************************************************************************)
C2_OrderInvariant ==
  Returned =>
    \A o \in Orders :
      SummaryInOrder(o) = [raised |-> FALSE, summary |-> summary[1]]

(***************************************************************************)
(* C3: the series of the summary are the paths of the integer and          *)
(* floating-point leaves of the scanned documents (booleans, strings and   *)
(* nulls give nothing); a series' count is the number of those leaves at   *)
(* its path, its min and max are the smallest and the largest of their     *)
(* values and its mean is their sum divided by the count.  The path of a   *)
(* leaf is taken as the dotted name the walk forms for it (SeriesOf).      *)
(***************************************************************************)
C3_SummaryOfNumericLeaves ==
  Returned =>
    LET leaves == NumericLeaves
        At(name) == SelectSeq(leaves, LAMBDA l : SeriesOf(l.steps) = name)
        Values(name) == [i \in 1..Len(At(name)) |-> ToFloat(At(name)[i].leaf)]
    IN /\ DOMAIN summary[1] = {SeriesOf(leaves[i].steps) : i \in 1..Len(leaves)}
       /\ \A name \in DOMAIN summary[1] :
            LET st == summary[1][name]
                vs == Values(name)
            IN /\ st.count = Fin(Len(vs))
               /\ \E i \in 1..Len(vs) : vs[i] = st.min
               /\ \E i \in 1..Len(vs) : vs[i] = st.max
               /\ \A i \in 1..Len(vs) : FloatLe(st.min, vs[i]) /\ FloatLe(vs[i], st.max)
               /\ (\A i \in 1..Len(vs) : vs[i].k = "fin") =>
                     /\ st.mean.k = "fin"
                     /\ st.mean.n * Len(vs) = FinSum(vs) * st.mean.d

(***************************************************************************)
(* C4 as stated: without a model the command holds no model flag; with a   *)
(* model, the empty string included, the model flag and the model follow   *)
(* the config argument and precede the extra arguments.                    *)
(***************************************************************************)
C4_ModelFlagAsStated ==
  (RunReturned /\ command # <<>>) =>
    LET cmd == command[1]
        base == Len(ConfigPart)
    IN IF args.model = <<>>
       THEN \A i \in 1..Len(cmd) : cmd[i] # "--model"
       ELSE /\ Len(cmd) = base + 2 + Len(args.extra)
            /\ SubSeq(cmd, 1, base) = ConfigPart
            /\ cmd[base + 1] = "--model"
            /\ cmd[base + 2] = args.model[1]
            /\ SubSeq(cmd, base + 3, Len(cmd)) = args.extra

(***************************************************************************)
(* C4 amended: with a non-empty model the command is the executable and    *)
(* config argument, the model flag, the model, then the extra arguments;   *)
(* with no model or the empty string it is the executable and config       *)
(* argument followed directly by the extra arguments.                      *)
(***************************************************************************)
C4_ModelFlag ==
  (RunReturned /\ command # <<>>) =>
    IF args.model # <<>> /\ args.model[1] # ""
    THEN command[1] = ConfigPart \o <<"--model", args.model[1]>> \o args.extra
    ELSE command[1] = ConfigPart \o args.extra

C4_Witness ==
  /\ RunReturned
  /\ args.model = <<"gpt-4">>
  /\ args.extra # <<>>
  /\ command # <<>>

(***************************************************************************)
(* C5: in an execution with a configuration error (unknown tool, missing   *)
(* config file, missing artifact directory) no side effect ever happens    *)
(* and the process ends with a non-zero status.                            *)
(***************************************************************************)
ConfigurationError ==
  \/ RunCommand /\ (args.tool \notin DOMAIN TOOL_COMMANDS \/ ~env.config_exists)
  \/ SummarizeCommand /\ ~env.directory_exists

C5_ConfigErrorBeforeSideEffects ==
  ConfigurationError =>
    /\ ~run_dir_created
    /\ command = <<>>
    /\ files_read = {}
    /\ visited = <<>>
    /\ spawned = 0
    /\ pc \in {"parse_args", "dispatch", "done"}
    /\ Done => (exit_code # <<>> /\ exit_code[1] # 0)

C5_Witness ==
  /\ Done
  /\ RunCommand
  /\ args.tool \in DOMAIN TOOL_COMMANDS
  /\ ~env.config_exists
  /\ exit_code = <<2>>

(***************************************************************************)
(* C6: run_tool spawns nothing and returns 0 on a dry run, spawns nothing  *)
(* and returns 127 when the executable is not resolvable, and otherwise    *)
(* spawns exactly one child and returns its exit code unchanged.           *)
(***************************************************************************)
C6_RunToolResult ==
  RunReturned =>
    IF args.dry_run
    THEN spawned = 0 /\ child_code = <<>> /\ exit_code = <<0>>
    ELSE IF ~Resolvable
    THEN spawned = 0 /\ child_code = <<>> /\ exit_code = <<127>>
    ELSE spawned = 1 /\ child_code # <<>> /\ exit_code = child_code

C6_Witness ==
  /\ RunReturned
  /\ ~args.dry_run
  /\ Resolvable
  /\ spawned = 1
  /\ exit_code = <<1>>

(***************************************************************************)
(* C7 as stated: run ends with 127 only when the executable was not found  *)
(* and no child was spawned.                                               *)
(***************************************************************************)
C7_DistinguishedAsStated ==
  (RunReturned /\ exit_code = <<127>>) => (spawned = 0 /\ ~Resolvable)

(***************************************************************************)
(* C7 amended: run ends with 127 only when the executable was not found    *)
(* and no child was spawned, or when the spawned child itself exited with  *)
(* 127; and a missing executable outside a dry run always ends with 127.   *)
(***************************************************************************)
C7_Distinguished ==
  RunReturned =>
    /\ exit_code = <<127>> =>
         \/ spawned = 0 /\ ~Resolvable /\ ~args.dry_run
         \/ spawned = 1 /\ Resolvable /\ child_code = <<127>>
    /\ (~args.dry_run /\ ~Resolvable) => (exit_code = <<127>> /\ spawned = 0)

C7_Witness ==
  /\ RunReturned
  /\ ~args.dry_run
  /\ ~Resolvable
  /\ exit_code = <<127>>
  /\ spawned = 0

(***************************************************************************)
(* C8: summarize of an existing directory visits every entry and ends with *)
(* status 0; it prints the "no metrics" line exactly when no sample was    *)
(* collected, and otherwise one row per series in increasing order of the  *)
(* metric path.                                                            *)
(***************************************************************************)
C8_SummarizeAlwaysSucceeds ==
  (Done /\ SummarizeCommand /\ env.directory_exists) =>
    /\ exit_code = <<0>>
    /\ {visited[i] : i \in 1..Len(visited)} = DOMAIN dir
    /\ (\E i \in 1..Len(stdout) : stdout[i].kind = "no_metrics") <=> origins = {}
    /\ origins # {} =>
         /\ {RowNames[i] : i \in 1..Len(RowNames)} = {o.name : o \in origins}
         /\ \A i \in 1..(Len(RowNames) - 1) : StrLt(RowNames[i], RowNames[i + 1])

(***************************************************************************)
(* C9: every sample is appended to the series named by the keys and        *)
(* indices of its path joined by ".", every key kept as it is.             *)
(***************************************************************************)
C9_NameIsJoinedPath == \A o \in origins : o.name = JoinDots(o.steps)

(***************************************************************************)
(* C10: two samples of one series come from the same structural path.      *)
(***************************************************************************)
C10_OnePathPerSeries ==
  \A o1, o2 \in origins : o1.name = o2.name => o1.steps = o2.steps

====
